---- MODULE Spec2Model ----
(***************************************************************************)
(* Red-black tree of src/unnamed/part_003 (the most advanced draft of      *)
(* RBT_implementation.c): create_rb, insert_baby with its five-case        *)
(* fix-up, search_baby, the rotations and the validator is_valid_rb_tree.  *)
(*                                                                         *)
(* A pointer is a natural number, NULL is 0.  A my_type payload has the    *)
(* single field x, so a payload is written as its x.  Addresses are only   *)
(* ever compared for equality, so malloc is modelled as handing out the    *)
(* address numbered after the payload the node is made for (Scratch when   *)
(* that address is in use).                                                *)
(*                                                                         *)
(* The growable array of src/sexy_lover_vector/vector_implementation.c     *)
(* (new_vectore, add_to_vectore, resize_vectore, clean_index,              *)
(* get_from_vectore) is a second program; it is modelled on the variable   *)
(* vec, which the tree leaves alone.                                       *)
(***************************************************************************)
EXTENDS Integers, Sequences, FiniteSets, TLC

\* ---- bounds ----
MaxKey == 6      \* keys 1..MaxKey are passed to insert_baby
MaxBuilt == 5    \* keys 1..MaxBuilt are used in the trees built by hand
MaxElem == 2     \* elements 1..MaxElem are stored in the vectore
MaxIndex == 3    \* indices -1..MaxIndex are passed to the vectore functions

\* ---- program constants (#define) ----
RED == 50
BLACK == 51
LESS == 61
EQUAL == 121
GREATER == 124
PRED == 153
SUCC == 161
INT_MAX == 2147483647
INT_MIN == -2147483647 - 1
CAP_INIT == 1
NO_INDEX_USED == -1

NULL == 0
Keys == 1..MaxKey
BuiltKeys == 1..MaxBuilt
Scratch == MaxKey + 1
Addr == 1..Scratch

\* struct rb_node; FreeCell is memory no node has been placed in
rb_node == [data : Keys \cup {NULL}, node_color : {0, RED, BLACK},
            parent : Addr \cup {NULL}, left : Addr \cup {NULL}, right : Addr \cup {NULL}]
FreeCell == [data |-> NULL, node_color |-> 0, parent |-> NULL, left |-> NULL, right |-> NULL]

VARIABLES
  nodes,      \* the heap: address -> rb_node
  alloc,      \* addresses handed out by malloc
  t,          \* the sexy_rb_tree: [root, num_nodes, sorp]
  pc,         \* "idle", or "aborted" once an assert failed or NULL was dereferenced
  fault,      \* what stopped the process: "", "duplicate", "assert", "segv"
  inserted,   \* keys whose insert_baby has completed
  last,       \* the result the caller holds: [op, arg, ret], NoCall once taken
  path_max,   \* static int path_max
  path_min,   \* static int path_min
  vec         \* the vectore: [storage, capacity, last_used_index]

vars == <<nodes, alloc, t, pc, fault, inserted, last, path_max, path_min, vec>>

\* ---- the machine state the C functions work on ----
\* st = [nodes, t, fault, ret, log]: heap, tree, fault raised so far, value
\* returned, and the calls made so far (log is a record of the execution, no
\* function reads it)

Ok(st) == st.fault = ""
Raise(st, f) == [st EXCEPT !.fault = f]
Return(st, v) == [st EXCEPT !.ret = v]

\* the call ev(n) is entered with the heap and the root as st has them
Log(st, ev, n) ==
  [st EXCEPT !.log = Append(@, [ev |-> ev, n |-> n, nodes |-> st.nodes, root |-> st.t.root])]

\* F applied to the value of x, x evaluated once
Bind(x, F(_)) == CHOOSE r \in {F(v) : v \in {x}} : TRUE

int_compare(a, b) == IF a < b THEN LESS ELSE IF a > b THEN GREATER ELSE EQUAL

get_root(st) == st.t.root
parent(st, n) == st.nodes[n].parent
get_left(st, n) == st.nodes[n].left
get_right(st, n) == st.nodes[n].right

create_rb == [root |-> NULL, num_nodes |-> 0, sorp |-> SUCC]

set_color(st, n, color) == [st EXCEPT !.nodes[n].node_color = color]

\* is_red of a node whose colour is RED or BLACK, or of NULL
is_red(st, n) == IF n = NULL \/ st.nodes[n].node_color = BLACK THEN 0 ELSE 1

\* is_red reaches its assert(0)
is_red_asserts(st, n) == n # NULL /\ st.nodes[n].node_color \notin {RED, BLACK}

grand_parent(st, n) ==
  IF n # NULL /\ st.nodes[n].parent # NULL THEN st.nodes[st.nodes[n].parent].parent ELSE NULL

uncle(st, n) ==
  LET g == grand_parent(st, n) IN
  IF g = NULL THEN NULL
  ELSE IF st.nodes[g].left = st.nodes[n].parent THEN st.nodes[g].right ELSE st.nodes[g].left

\* node_insert_node with the EQUAL branch missing: an equal key goes right
RECURSIVE node_insert_node_no_equal(_, _, _)
node_insert_node_no_equal(st, inserting, cur) ==
  LET c == int_compare(st.nodes[inserting].data, st.nodes[cur].data) IN
  IF c = LESS THEN
    IF st.nodes[cur].left = NULL
    THEN Return([st EXCEPT !.nodes[inserting].left = NULL,
                           !.nodes[inserting].right = NULL,
                           !.nodes[inserting].parent = cur,
                           !.nodes[cur].left = inserting], inserting)
    ELSE node_insert_node_no_equal(st, inserting, st.nodes[cur].left)
  ELSE
    IF st.nodes[cur].right = NULL
    THEN Return([st EXCEPT !.nodes[inserting].left = NULL,
                           !.nodes[inserting].right = NULL,
                           !.nodes[inserting].parent = cur,
                           !.nodes[cur].right = inserting], inserting)
    ELSE node_insert_node_no_equal(st, inserting, st.nodes[cur].right)

RECURSIVE node_insert_node(_, _, _)
node_insert_node(st, inserting, cur) ==
  LET c == int_compare(st.nodes[inserting].data, st.nodes[cur].data) IN
  IF c = LESS THEN
    IF st.nodes[cur].left = NULL
    THEN Return([st EXCEPT !.nodes[inserting].left = NULL,
                           !.nodes[inserting].right = NULL,
                           !.nodes[inserting].parent = cur,
                           !.nodes[cur].left = inserting], inserting)
    ELSE node_insert_node(st, inserting, st.nodes[cur].left)
  ELSE IF c = EQUAL THEN Raise(st, "duplicate")
  ELSE IF c = GREATER THEN
    IF st.nodes[cur].right = NULL
    THEN Return([st EXCEPT !.nodes[inserting].left = NULL,
                           !.nodes[inserting].right = NULL,
                           !.nodes[inserting].parent = cur,
                           !.nodes[cur].right = inserting], inserting)
    ELSE node_insert_node(st, inserting, st.nodes[cur].right)
  ELSE Raise(st, "assert")

\* binary_insert_node that colours the node BLACK below a root as well
binary_insert_node_all_black(st, n, undef) ==
  IF st.t.root = NULL
  THEN Return([st EXCEPT !.nodes[n].node_color = BLACK,
                         !.nodes[n].parent = NULL,
                         !.nodes[n].left = NULL,
                         !.nodes[n].right = NULL,
                         !.t.root = n], n)
  ELSE LET s1 == node_insert_node([st EXCEPT !.nodes[n].node_color = BLACK], n, st.t.root) IN
       IF Ok(s1) THEN Return(s1, undef) ELSE s1

\* The else branch ends without a return statement: the value the caller
\* reads is unspecified, undef stands for it.
binary_insert_node(st, n, undef) ==
  IF st.t.root = NULL
  THEN Return([st EXCEPT !.nodes[n].node_color = BLACK,
                         !.nodes[n].parent = NULL,
                         !.nodes[n].left = NULL,
                         !.nodes[n].right = NULL,
                         !.t.root = n], n)
  ELSE LET s1 == node_insert_node([st EXCEPT !.nodes[n].node_color = RED], n, st.t.root) IN
       IF Ok(s1) THEN Return(s1, undef) ELSE s1

\* rrot that leaves the parent of the left child as it was: no l->parent = top_parent
rrot_keeps_parent(st0, n) ==
  Bind(Log(st0, "rrot", n), LAMBDA st :
  LET update_root == IF get_root(st) = n THEN 1 ELSE 0
      top == n
      top_parent == parent(st, n)
      l == get_left(st, n)
  IN
  IF top = NULL THEN Raise(st, "segv")
  ELSE IF l = NULL THEN Raise(st, "assert")
  ELSE
    LET lr == get_right(st, l)
        s1 == [st EXCEPT !.nodes[n].left = lr,
                         !.nodes[l].right = n,
                         !.nodes[n].parent = l]
        s2 == IF lr # NULL THEN [s1 EXCEPT !.nodes[lr].parent = n] ELSE s1
        s3 == IF top_parent # NULL
              THEN IF s2.nodes[top_parent].left = top
                   THEN [s2 EXCEPT !.nodes[top_parent].left = l]
                   ELSE [s2 EXCEPT !.nodes[top_parent].right = l]
              ELSE s2
        s4 == IF update_root = 1 THEN [s3 EXCEPT !.t.root = l] ELSE s3
    IN Return(s4, 1))

\* rrot that loses the left child's right subtree: n->left = NULL
rrot_drops_inner(st0, n) ==
  Bind(Log(st0, "rrot", n), LAMBDA st :
  LET update_root == IF get_root(st) = n THEN 1 ELSE 0
      top == n
      top_parent == parent(st, n)
      l == get_left(st, n)
  IN
  IF top = NULL THEN Raise(st, "segv")
  ELSE IF l = NULL THEN Raise(st, "assert")
  ELSE
    LET s1 == [st EXCEPT !.nodes[n].left = NULL,
                         !.nodes[l].right = n,
                         !.nodes[n].parent = l,
                         !.nodes[l].parent = top_parent]
        s3 == IF top_parent # NULL
              THEN IF s1.nodes[top_parent].left = top
                   THEN [s1 EXCEPT !.nodes[top_parent].left = l]
                   ELSE [s1 EXCEPT !.nodes[top_parent].right = l]
              ELSE s1
        s4 == IF update_root = 1 THEN [s3 EXCEPT !.t.root = l] ELSE s3
    IN Return(s4, 1))

\* rrot that exchanges the payloads of n and its left child instead of relinking
rrot_by_payload(st0, n) ==
  Bind(Log(st0, "rrot", n), LAMBDA st :
  LET l == get_left(st, n)
  IN
  IF n = NULL THEN Raise(st, "segv")
  ELSE IF l = NULL THEN Raise(st, "assert")
  ELSE Return([st EXCEPT !.nodes[n].data = st.nodes[l].data,
                         !.nodes[l].data = st.nodes[n].data], 1))

\* rrot that moves n under its left child before it looks whether there is one
rrot_links_before_assert(st0, n) ==
  Bind(Log(st0, "rrot", n), LAMBDA st :
  LET update_root == IF get_root(st) = n THEN 1 ELSE 0
      top == n
      top_parent == parent(st, n)
      l == get_left(st, n)
  IN
  IF top = NULL THEN Raise(st, "segv")
  ELSE IF l = NULL
  THEN Raise([st EXCEPT !.nodes[n].parent = l,
                        !.t.root = IF update_root = 1 THEN l ELSE @], "assert")
  ELSE
    LET lr == get_right(st, l)
        s1 == [st EXCEPT !.nodes[n].left = lr,
                         !.nodes[l].right = n,
                         !.nodes[n].parent = l,
                         !.nodes[l].parent = top_parent]
        s2 == IF lr # NULL THEN [s1 EXCEPT !.nodes[lr].parent = n] ELSE s1
        s3 == IF top_parent # NULL
              THEN IF s2.nodes[top_parent].left = top
                   THEN [s2 EXCEPT !.nodes[top_parent].left = l]
                   ELSE [s2 EXCEPT !.nodes[top_parent].right = l]
              ELSE s2
        s4 == IF update_root = 1 THEN [s3 EXCEPT !.t.root = l] ELSE s3
    IN Return(s4, 1))

rrot(st0, n) ==
  Bind(Log(st0, "rrot", n), LAMBDA st :
  LET update_root == IF get_root(st) = n THEN 1 ELSE 0
      top == n
      top_parent == parent(st, n)
      l == get_left(st, n)
  IN
  IF top = NULL THEN Raise(st, "segv")
  ELSE IF l = NULL THEN Raise(st, "assert")
  ELSE
    LET lr == get_right(st, l)
        s1 == [st EXCEPT !.nodes[n].left = lr,
                         !.nodes[l].right = n,
                         !.nodes[n].parent = l,
                         !.nodes[l].parent = top_parent]
        s2 == IF lr # NULL THEN [s1 EXCEPT !.nodes[lr].parent = n] ELSE s1
        s3 == IF top_parent # NULL
              THEN IF s2.nodes[top_parent].left = top
                   THEN [s2 EXCEPT !.nodes[top_parent].left = l]
                   ELSE [s2 EXCEPT !.nodes[top_parent].right = l]
              ELSE s2
        s4 == IF update_root = 1 THEN [s3 EXCEPT !.t.root = l] ELSE s3
    IN Return(s4, 1))

\* lrot that hands n the outer grandchild (r's right) instead of the inner one
lrot_outer_grandchild(st0, n) ==
  Bind(Log(st0, "lrot", n), LAMBDA st :
  LET update_root == IF get_root(st) = n THEN 1 ELSE 0
      top == n
      top_parent == parent(st, n)
      r == get_right(st, n)
  IN
  IF top = NULL THEN Raise(st, "segv")
  ELSE IF r = NULL THEN Raise(st, "assert")
  ELSE
    LET rr == get_right(st, r)
        s1 == [st EXCEPT !.nodes[n].right = rr,
                         !.nodes[r].left = n,
                         !.nodes[n].parent = r,
                         !.nodes[r].parent = top_parent]
        s2 == IF rr # NULL THEN [s1 EXCEPT !.nodes[rr].parent = n] ELSE s1
        s3 == IF top_parent # NULL
              THEN IF s2.nodes[top_parent].left = top
                   THEN [s2 EXCEPT !.nodes[top_parent].left = r]
                   ELSE [s2 EXCEPT !.nodes[top_parent].right = r]
              ELSE s2
        s4 == IF update_root = 1 THEN [s3 EXCEPT !.t.root = r] ELSE s3
    IN Return(s4, 1))

\* lrot that leaves the parent of r's left subtree as it was
lrot_stale_parent(st0, n) ==
  Bind(Log(st0, "lrot", n), LAMBDA st :
  LET update_root == IF get_root(st) = n THEN 1 ELSE 0
      top == n
      top_parent == parent(st, n)
      r == get_right(st, n)
  IN
  IF top = NULL THEN Raise(st, "segv")
  ELSE IF r = NULL THEN Raise(st, "assert")
  ELSE
    LET rl == get_left(st, r)
        s2 == [st EXCEPT !.nodes[n].right = rl,
                         !.nodes[r].left = n,
                         !.nodes[n].parent = r,
                         !.nodes[r].parent = top_parent]
        s3 == IF top_parent # NULL
              THEN IF s2.nodes[top_parent].left = top
                   THEN [s2 EXCEPT !.nodes[top_parent].left = r]
                   ELSE [s2 EXCEPT !.nodes[top_parent].right = r]
              ELSE s2
        s4 == IF update_root = 1 THEN [s3 EXCEPT !.t.root = r] ELSE s3
    IN Return(s4, 1))

\* lrot that leaves t->root as it was
lrot_keeps_root(st0, n) ==
  Bind(Log(st0, "lrot", n), LAMBDA st :
  LET top == n
      top_parent == parent(st, n)
      r == get_right(st, n)
  IN
  IF top = NULL THEN Raise(st, "segv")
  ELSE IF r = NULL THEN Raise(st, "assert")
  ELSE
    LET rl == get_left(st, r)
        s1 == [st EXCEPT !.nodes[n].right = rl,
                         !.nodes[r].left = n,
                         !.nodes[n].parent = r,
                         !.nodes[r].parent = top_parent]
        s2 == IF rl # NULL THEN [s1 EXCEPT !.nodes[rl].parent = n] ELSE s1
        s3 == IF top_parent # NULL
              THEN IF s2.nodes[top_parent].left = top
                   THEN [s2 EXCEPT !.nodes[top_parent].left = r]
                   ELSE [s2 EXCEPT !.nodes[top_parent].right = r]
              ELSE s2
    IN Return(s3, 1))

lrot(st0, n) ==
  Bind(Log(st0, "lrot", n), LAMBDA st :
  LET update_root == IF get_root(st) = n THEN 1 ELSE 0
      top == n
      top_parent == parent(st, n)
      r == get_right(st, n)
  IN
  IF top = NULL THEN Raise(st, "segv")
  ELSE IF r = NULL THEN Raise(st, "assert")
  ELSE
    LET rl == get_left(st, r)
        s1 == [st EXCEPT !.nodes[n].right = rl,
                         !.nodes[r].left = n,
                         !.nodes[n].parent = r,
                         !.nodes[r].parent = top_parent]
        s2 == IF rl # NULL THEN [s1 EXCEPT !.nodes[rl].parent = n] ELSE s1
        s3 == IF top_parent # NULL
              THEN IF s2.nodes[top_parent].left = top
                   THEN [s2 EXCEPT !.nodes[top_parent].left = r]
                   ELSE [s2 EXCEPT !.nodes[top_parent].right = r]
              ELSE s2
        s4 == IF update_root = 1 THEN [s3 EXCEPT !.t.root = r] ELSE s3
    IN Return(s4, 1))

\* insert_pred_ublack_same that rotates at the grandparent, back, and again
insert_pred_ublack_same_thrice(st0, n) ==
  Bind(Log(st0, "insert_pred_ublack_same", n), LAMBDA st :
  LET p == parent(st, n)
      g == grand_parent(st, n)
  IN
  IF n = NULL THEN Raise(st, "segv")
  ELSE IF p = NULL \/ g = NULL THEN Raise(st, "assert")
  ELSE
    LET s1 == set_color(set_color(st, p, BLACK), g, RED) IN
    IF get_left(s1, p) = n
    THEN Bind(rrot(s1, g), LAMBDA s2 : IF Ok(s2) THEN rrot(lrot(s2, p), g) ELSE s2)
    ELSE Bind(lrot(s1, g), LAMBDA s2 : IF Ok(s2) THEN lrot(rrot(s2, p), g) ELSE s2))

insert_pred_ublack_same(st0, n) ==
  Bind(Log(st0, "insert_pred_ublack_same", n), LAMBDA st :
  LET p == parent(st, n)
      g == grand_parent(st, n)
  IN
  IF n = NULL THEN Raise(st, "segv")
  ELSE IF p = NULL \/ g = NULL THEN Raise(st, "assert")
  ELSE
    LET s1 == set_color(set_color(st, p, BLACK), g, RED) IN
    IF get_left(s1, p) = n THEN rrot(s1, g) ELSE lrot(s1, g))

insert_pred_ublack_opp(st0, n) ==
  Bind(Log(st0, "insert_pred_ublack_opp", n), LAMBDA st :
  LET p == parent(st, n)
      g == grand_parent(st, n)
  IN
  IF n = NULL THEN Raise(st, "segv")
  ELSE IF p = NULL \/ g = NULL THEN Raise(st, "assert")
  ELSE IF get_right(st, p) = n /\ p = get_left(st, g) THEN
    LET s1 == lrot(st, p) IN
    IF ~Ok(s1) THEN s1
    ELSE IF s1.ret = 0 THEN Return(s1, 0)
    ELSE insert_pred_ublack_same(s1, s1.nodes[n].left)
  ELSE IF get_left(st, p) = n /\ p = get_right(st, g) THEN
    LET s1 == rrot(st, p) IN
    IF ~Ok(s1) THEN s1
    ELSE insert_pred_ublack_same(s1, s1.nodes[n].right)
  ELSE insert_pred_ublack_same(st, n))

RECURSIVE insert_base(_, _)

insert_both_red(st, n) ==
  LET u == uncle(st, n) IN
  IF u # NULL /\ is_red_asserts(st, u) THEN Raise(st, "assert")
  ELSE IF u # NULL /\ is_red(st, u) = 1 THEN
    LET g == grand_parent(st, n)
        s1 == set_color(set_color(set_color(st, parent(st, n), BLACK), u, BLACK), g, RED)
    IN insert_base(s1, g)
  ELSE insert_pred_ublack_opp(st, n)

\* insert_black_parent that does not stop at a BLACK parent
insert_black_parent_no_stop(st, n) ==
  IF n = NULL THEN Raise(st, "segv")
  ELSE
    LET p == parent(st, n) IN
    IF p = NULL THEN Raise(st, "assert")
    ELSE IF is_red_asserts(st, p) THEN Raise(st, "assert")
    ELSE insert_both_red(st, n)

insert_black_parent(st, n) ==
  IF n = NULL THEN Raise(st, "segv")
  ELSE
    LET p == parent(st, n) IN
    IF p = NULL THEN Raise(st, "assert")
    ELSE IF is_red_asserts(st, p) THEN Raise(st, "assert")
    ELSE IF is_red(st, p) = 0 THEN Return(st, 1)
    ELSE insert_both_red(st, n)

\* insert_base that does not colour the root BLACK
insert_base_no_recolor(st0, n) ==
  Bind(Log(st0, "insert_base", n), LAMBDA st :
  IF n = get_root(st) THEN
    IF n = NULL THEN Raise(st, "segv")
    ELSE IF st.nodes[n].parent # NULL THEN Raise(st, "assert") ELSE Return(st, 1)
  ELSE insert_black_parent(st, n))

insert_base(st0, n) ==
  Bind(Log(st0, "insert_base", n), LAMBDA st :
  IF n = get_root(st) THEN
    IF n = NULL THEN Raise(st, "segv")
    ELSE LET s1 == set_color(st, n, BLACK) IN
         IF s1.nodes[n].parent # NULL THEN Raise(s1, "assert") ELSE Return(s1, 1)
  ELSE insert_black_parent(st, n))

insert_rb_node(st, n, undef) ==
  LET s1 == binary_insert_node(st, n, undef) IN
  IF Ok(s1) THEN insert_base(s1, s1.ret) ELSE s1

malloc(al, data) == IF data \notin al THEN data ELSE Scratch

\* insert_baby that forgets num_nodes++
insert_baby_no_count(st, n, data, undef) ==
  insert_rb_node([st EXCEPT !.nodes[n] = [data |-> data, node_color |-> RED,
                                          parent |-> NULL, left |-> NULL, right |-> NULL]],
                 n, undef)

insert_baby(st, n, data, undef) ==
  LET s0 == [st EXCEPT !.nodes[n] = [data |-> data, node_color |-> RED,
                                     parent |-> NULL, left |-> NULL, right |-> NULL]]
      s1 == insert_rb_node(s0, n, undef)
  IN IF Ok(s1) /\ s1.ret # 0 THEN [s1 EXCEPT !.t.num_nodes = @ + 1] ELSE s1

RECURSIVE search_loop(_, _, _)
search_loop(st, elem, cur) ==
  IF cur = NULL THEN NULL
  ELSE IF int_compare(elem, st.nodes[cur].data) = LESS THEN search_loop(st, elem, st.nodes[cur].left)
  ELSE IF int_compare(elem, st.nodes[cur].data) = GREATER THEN search_loop(st, elem, st.nodes[cur].right)
  ELSE st.nodes[cur].data

\* search_baby whose loop goes right on LESS as well as on GREATER
RECURSIVE search_loop_right(_, _, _)
search_loop_right(st, elem, cur) ==
  IF cur = NULL THEN NULL
  ELSE IF int_compare(elem, st.nodes[cur].data) = EQUAL THEN st.nodes[cur].data
  ELSE search_loop_right(st, elem, st.nodes[cur].right)

search_baby_right(st, elem) == search_loop_right(st, elem, st.t.root)

search_baby(st, elem) == search_loop(st, elem, st.t.root)

\* ---- free_rb ----

RECURSIVE free_rb_nodes(_, _)
free_rb_nodes(st, n) ==
  IF n = NULL THEN Raise(st, "segv")
  ELSE
    LET s1 == Log(st, "free", st.nodes[n].data)
        s2 == IF get_left(s1, n) # NULL THEN free_rb_nodes(s1, get_left(s1, n)) ELSE s1
        s3 == IF ~Ok(s2) THEN s2
              ELSE IF get_right(s2, n) # NULL THEN free_rb_nodes(s2, get_right(s2, n)) ELSE s2
    IN IF ~Ok(s3) THEN s3
       ELSE [Log(s3, "free_node", n) EXCEPT !.nodes[n] = FreeCell]

free_rb(st) ==
  LET s1 == free_rb_nodes(st, st.t.root) IN
  IF Ok(s1) THEN Log(s1, "free_tree", NULL) ELSE s1

\* ---- the reduction step of removal ----

RECURSIVE rightmost(_, _)
rightmost(st, l) == IF get_right(st, l) # NULL THEN rightmost(st, get_right(st, l)) ELSE l

RECURSIVE leftmost(_, _)
leftmost(st, r) == IF get_left(st, r) # NULL THEN leftmost(st, get_left(st, r)) ELSE r

\* replace_with_pred without the loop: the left child is taken for the predecessor
replace_with_pred_no_descent(st, n) ==
  IF n = NULL THEN Raise(st, "segv")
  ELSE IF get_left(st, n) = NULL THEN Return(st, NULL)
  ELSE LET l == get_left(st, n) IN
       IF st.nodes[l].data = NULL THEN Raise(st, "assert")
       ELSE Return([st EXCEPT !.nodes[n].data = st.nodes[l].data], l)

replace_with_pred(st, n) ==
  IF n = NULL THEN Raise(st, "segv")
  ELSE IF get_left(st, n) = NULL THEN Return(st, NULL)
  ELSE LET l == rightmost(st, get_left(st, n)) IN
       IF st.nodes[l].data = NULL THEN Raise(st, "assert")
       ELSE Return([st EXCEPT !.nodes[n].data = st.nodes[l].data], l)

\* replace_with_succ that finds the successor and forgets to copy its payload
replace_with_succ_no_copy(st, n) ==
  IF n = NULL THEN Raise(st, "segv")
  ELSE IF get_right(st, n) = NULL THEN Return(st, NULL)
  ELSE Return(st, leftmost(st, get_right(st, n)))

\* replace_with_succ without the loop: the right child is taken for the successor
replace_with_succ_no_descent(st, n) ==
  IF n = NULL THEN Raise(st, "segv")
  ELSE IF get_right(st, n) = NULL THEN Return(st, NULL)
  ELSE LET r == get_right(st, n) IN
       IF st.nodes[r].data = NULL THEN Raise(st, "assert")
       ELSE Return([st EXCEPT !.nodes[n].data = st.nodes[r].data], r)

replace_with_succ(st, n) ==
  IF n = NULL THEN Raise(st, "segv")
  ELSE IF get_right(st, n) = NULL THEN Return(st, NULL)
  ELSE LET r == leftmost(st, get_right(st, n)) IN
       IF st.nodes[r].data = NULL THEN Raise(st, "assert")
       ELSE Return([st EXCEPT !.nodes[n].data = st.nodes[r].data], r)

\* simple_replace that does not try the other side
simple_replace_no_fallback(st, n, sorp) ==
  IF sorp = SUCC THEN replace_with_succ(st, n)
  ELSE IF sorp = PRED THEN replace_with_pred(st, n)
  ELSE Raise(st, "assert")

simple_replace(st, n, sorp) ==
  IF sorp = SUCC THEN
    LET s1 == replace_with_succ(st, n) IN
    IF Ok(s1) /\ s1.ret = NULL THEN replace_with_pred(s1, n) ELSE s1
  ELSE IF sorp = PRED THEN
    LET s1 == replace_with_pred(st, n) IN
    IF Ok(s1) /\ s1.ret = NULL THEN replace_with_succ(s1, n) ELSE s1
  ELSE Raise(st, "assert")

\* ---- remove_baby ----
\* The source declares remove_baby and defines only the reduction step above;
\* the rest follows the removal procedure of the specification, section 4.5.

\* step 1: the node holding key, NULL when no node holds it
RECURSIVE find_node(_, _, _)
find_node(st, key, cur) ==
  IF cur = NULL THEN NULL
  ELSE IF int_compare(key, st.nodes[cur].data) = LESS THEN find_node(st, key, st.nodes[cur].left)
  ELSE IF int_compare(key, st.nodes[cur].data) = GREATER THEN find_node(st, key, st.nodes[cur].right)
  ELSE cur

\* step 3: m, a node with at most one child, leaves the tree and its child
\* (or NULL) takes its slot
unlink(st, m) ==
  LET c == IF get_left(st, m) # NULL THEN get_left(st, m) ELSE get_right(st, m)
      p == parent(st, m)
      s1 == IF c # NULL THEN [st EXCEPT !.nodes[c].parent = p] ELSE st
  IN IF p = NULL THEN [s1 EXCEPT !.t.root = c]
     ELSE IF get_left(st, p) = m THEN [s1 EXCEPT !.nodes[p].left = c]
     ELSE [s1 EXCEPT !.nodes[p].right = c]

\* step 4: the six-case fix-up; x (NULL or a node) is the top of the subtree
\* that is one BLACK node short, p is its parent
RECURSIVE remove_fixup(_, _, _)
remove_fixup(st, x, p) ==
  IF p = NULL \/ is_red(st, x) = 1
  THEN IF x # NULL THEN set_color(st, x, BLACK) ELSE st
  ELSE IF get_left(st, p) = x THEN
    LET w == get_right(st, p) IN
    IF w = NULL THEN Raise(st, "assert")
    ELSE IF is_red(st, w) = 1 THEN
      Bind(lrot(set_color(set_color(st, w, BLACK), p, RED), p), LAMBDA s1 :
        IF Ok(s1) THEN remove_fixup(s1, x, p) ELSE s1)
    ELSE IF is_red(st, get_left(st, w)) = 0 /\ is_red(st, get_right(st, w)) = 0 THEN
      remove_fixup(set_color(st, w, RED), p, parent(st, p))
    ELSE
      Bind(IF is_red(st, get_right(st, w)) = 0
           THEN rrot(set_color(set_color(st, get_left(st, w), BLACK), w, RED), w)
           ELSE st, LAMBDA s1 :
        LET w2 == get_right(s1, p)
            s2 == set_color(set_color(set_color(s1, w2, s1.nodes[p].node_color), p, BLACK),
                            get_right(s1, w2), BLACK)
        IN lrot(s2, p))
  ELSE
    LET w == get_left(st, p) IN
    IF w = NULL THEN Raise(st, "assert")
    ELSE IF is_red(st, w) = 1 THEN
      Bind(rrot(set_color(set_color(st, w, BLACK), p, RED), p), LAMBDA s1 :
        IF Ok(s1) THEN remove_fixup(s1, x, p) ELSE s1)
    ELSE IF is_red(st, get_left(st, w)) = 0 /\ is_red(st, get_right(st, w)) = 0 THEN
      remove_fixup(set_color(st, w, RED), p, parent(st, p))
    ELSE
      Bind(IF is_red(st, get_left(st, w)) = 0
           THEN lrot(set_color(set_color(st, get_right(st, w), BLACK), w, RED), w)
           ELSE st, LAMBDA s1 :
        LET w2 == get_left(s1, p)
            s2 == set_color(set_color(set_color(s1, w2, s1.nodes[p].node_color), p, BLACK),
                            get_left(s1, w2), BLACK)
        IN rrot(s2, p))

\* steps 1 to 5; returns the payload stored under key, NULL when there is none
remove_baby(st, key) ==
  LET n == find_node(st, key, st.t.root) IN
  IF n = NULL THEN Return(st, NULL)
  ELSE
    LET val == st.nodes[n].data
        two == get_left(st, n) # NULL /\ get_right(st, n) # NULL
    IN
    Bind(IF two THEN simple_replace(st, n, st.t.sorp) ELSE Return(st, n), LAMBDA s1 :
      IF ~Ok(s1) THEN s1
      ELSE
        LET m == s1.ret
            s2 == IF two THEN [s1 EXCEPT !.t.sorp = IF @ = SUCC THEN PRED ELSE SUCC] ELSE s1
            c == IF get_left(s2, m) # NULL THEN get_left(s2, m) ELSE get_right(s2, m)
        IN
        Bind(IF is_red(s2, m) = 1 THEN unlink(s2, m)
             ELSE remove_fixup(unlink(s2, m), c, parent(s2, m)), LAMBDA s4 :
          IF ~Ok(s4) THEN s4
          ELSE Return([s4 EXCEPT !.nodes[m] = FreeCell, !.t.num_nodes = @ - 1], val)))

\* ---- the validator ----

one_red_parent_black_children(st, n) ==
  LET l == get_left(st, n)
      r == get_right(st, n)
  IN IF is_red(st, n) = 1 /\ (is_red(st, l) = 1 \/ is_red(st, r) = 1) THEN 0 ELSE 1

\* red_parent_black_children that looks at n and its children only
red_parent_black_children_shallow(st, n) == one_red_parent_black_children(st, n)

RECURSIVE red_parent_black_children(_, _)
red_parent_black_children(st, n) ==
  IF one_red_parent_black_children(st, n) = 0 THEN 0
  ELSE IF st.nodes[n].left # NULL /\ red_parent_black_children(st, st.nodes[n].left) = 0 THEN 0
  ELSE IF st.nodes[n].right # NULL /\ red_parent_black_children(st, st.nodes[n].right) = 0 THEN 0
  ELSE 1

\* pm = [max, min] are the statics path_max and path_min
PathReset == [max |-> INT_MIN, min |-> INT_MAX]

\* path_black_nodes_helper that counts RED nodes as well
RECURSIVE path_black_nodes_helper_all(_, _, _, _)
path_black_nodes_helper_all(st, n, count, pm) ==
  IF n = NULL THEN
    LET c == count + 1 IN
    [max |-> IF c > pm.max THEN c ELSE pm.max,
     min |-> IF c < pm.min THEN c ELSE pm.min]
  ELSE
    path_black_nodes_helper_all(st, st.nodes[n].right, count + 1,
      path_black_nodes_helper_all(st, st.nodes[n].left, count + 1, pm))

RECURSIVE path_black_nodes_helper(_, _, _, _)
path_black_nodes_helper(st, n, count, pm) ==
  IF n = NULL THEN
    LET c == count + 1 IN
    [max |-> IF c > pm.max THEN c ELSE pm.max,
     min |-> IF c < pm.min THEN c ELSE pm.min]
  ELSE
    LET c == IF is_red(st, n) = 0 THEN count + 1 ELSE count IN
    path_black_nodes_helper(st, st.nodes[n].right, c,
      path_black_nodes_helper(st, st.nodes[n].left, c, pm))

\* Returns [ret, pm].  The calls on the children run for their effect on the
\* statics only: their return value is dropped and the statics are reset
\* after each, so sub is read for pm alone and pm is overwritten.
RECURSIVE path_black_nodes(_, _)
path_black_nodes(st, n) ==
  LET pm1 == path_black_nodes_helper(st, n, 0, PathReset) IN
  IF pm1.max # pm1.min THEN [ret |-> 0, pm |-> pm1]
  ELSE
    LET subl == IF st.nodes[n].left # NULL
                THEN [path_black_nodes(st, st.nodes[n].left) EXCEPT !.pm = PathReset]
                ELSE [ret |-> 1, pm |-> pm1]
        subr == IF st.nodes[n].right # NULL
                THEN [path_black_nodes(st, st.nodes[n].right) EXCEPT !.pm = PathReset]
                ELSE [ret |-> 1, pm |-> subl.pm]
    IN [ret |-> 1, pm |-> [subr.pm EXCEPT !.max = INT_MIN, !.min = INT_MAX]]

\* tp is the sexy_rb_tree pointer passed in: NULL or the tree (1);
\* pm0 is the value of the statics on entry
is_valid_rb_tree(st, tp, pm0) ==
  IF tp = NULL THEN [ret |-> 0, pm |-> pm0]
  ELSE LET r == get_root(st) IN
    IF r = NULL THEN [ret |-> 0, pm |-> pm0]
    ELSE IF is_red(st, r) = 1 THEN [ret |-> 0, pm |-> pm0]
    ELSE IF red_parent_black_children(st, r) = 0 THEN [ret |-> 0, pm |-> pm0]
    ELSE LET pb == path_black_nodes(st, r) IN
         IF pb.ret = 0 THEN [ret |-> 0, pm |-> pb.pm] ELSE [ret |-> 1, pm |-> pb.pm]

\* ---- the vectore ----
\* A my_type * stored in the vectore is one of Elems, NULL, or Wild: a value
\* that is not NULL and is no element the caller has stored.
\* vs = [v, fault, ret, touched]: the vectore, the fault raised so far, the
\* value returned, and the storage indices read or written so far (touched is
\* a record of the execution, no function reads it)

Elems == 1..MaxElem
Wild == MaxElem + 1
Indexes == -1..MaxIndex

new_vectore ==
  [storage |-> [i \in 0..(CAP_INIT - 1) |-> NULL],
   capacity |-> CAP_INIT,
   last_used_index |-> NO_INDEX_USED]

get_capacity(vs) == vs.v.capacity

get_last_used_index(vs) == vs.v.last_used_index

\* the storage index k is read or written
Touch(vs, k) == [vs EXCEPT !.touched = @ \cup {k}]

\* what realloc(v, ...) can make of the call: it is given the vectore v itself,
\* not v->storage.  "null": it fails, and the loop writes through the NULL
\* stored in v->storage.  "inplace": the block stays where it is, v->storage
\* is v itself and storage[1] lies on capacity and last_used_index.  "moved":
\* the block is copied and released, and v is read where it was, as it was
\* left.  w is what memory that nothing wrote holds (NULL or not).
Realloc == [kind : {"null", "inplace", "moved"}, w : {NULL, Wild}]

resize_vectore(vs, u) ==
  IF get_capacity(vs) > INT_MAX \div 2 THEN Return(vs, NULL)
  ELSE
    LET old_cap == vs.v.capacity
        new_cap == old_cap * 2
        s1 == [vs EXCEPT !.v.capacity = new_cap]
    IN
    IF u.kind = "null" \/ new_cap = 0
    THEN Raise([s1 EXCEPT !.v.storage = [i \in {} |-> NULL]], "segv")
    ELSE IF u.kind = "inplace" /\ old_cap = 1
    THEN Return([s1 EXCEPT !.v.storage = [i \in {} |-> NULL],
                           !.v.capacity = 0,
                           !.v.last_used_index = 0,
                           !.touched = @ \cup {1}], 1)
    ELSE Return([s1 EXCEPT !.v.storage = [i \in 0..(new_cap - 1) |->
                                             IF i >= old_cap THEN NULL
                                             ELSE IF i <= 1 THEN Wild ELSE u.w],
                           !.touched = @ \cup (old_cap..(new_cap - 1))], 1)

RECURSIVE clean_loop(_, _)
clean_loop(vs, w) ==
  LET k == vs.v.last_used_index
      read == IF k \in DOMAIN vs.v.storage THEN vs.v.storage[k] ELSE w
      s1 == Touch(vs, k)
  IN IF read = NULL /\ k >= 0
     THEN clean_loop([s1 EXCEPT !.v.last_used_index = k - 1], w)
     ELSE s1

\* The else branch ends without a return statement: undef stands for the value
\* the caller reads.  w is what a read outside the storage finds.
clean_index(vs, index, w, undef) ==
  IF index >= vs.v.capacity \/ index < 0 THEN Return(vs, 0)
  ELSE
    LET s1 == Touch([vs EXCEPT !.v.storage[index] = NULL], index)
        s2 == IF index = s1.v.last_used_index THEN clean_loop(s1, w) ELSE s1
    IN Return(s2, undef)

get_from_vectore(vs, index) ==
  IF index >= vs.v.capacity \/ index < 0 THEN NULL ELSE vs.v.storage[index]

RECURSIVE add_loop(_, _, _)
add_loop(vs, index, u) ==
  IF index >= vs.v.capacity
  THEN LET s1 == resize_vectore(vs, u) IN
       IF ~Ok(s1) \/ s1.ret = NULL THEN s1 ELSE add_loop(s1, index, u)
  ELSE Return(vs, 1)

add_to_vectore(vs, elem, index, u) ==
  IF index < 0 THEN Return(vs, NULL)
  ELSE
    LET s1 == add_loop(vs, index, u) IN
    IF ~Ok(s1) \/ s1.ret = NULL THEN s1
    ELSE
      LET s2 == Touch([s1 EXCEPT !.v.storage[index] = elem], index)
          s3 == IF index > s2.v.last_used_index
                THEN [s2 EXCEPT !.v.last_used_index = index] ELSE s2
      IN Return(s3, 1)

\* ---- the state machine ----
\* One caller, one call at a time: a call runs to completion, a query leaves
\* its result in last, and the caller takes the result before the next call.

Machine == [nodes |-> nodes, t |-> t, fault |-> "", ret |-> 0, log |-> <<>>]

NoCall == [op |-> "none", arg |-> 0, ret |-> 0]

Init ==
  /\ nodes = [a \in Addr |-> FreeCell]
  /\ alloc = {}
  /\ t = create_rb
  /\ pc = "idle"
  /\ fault = ""
  /\ inserted = {}
  /\ last = NoCall
  /\ path_max = INT_MIN
  /\ path_min = INT_MAX
  /\ vec = new_vectore

\* the values the caller of binary_insert_node may read when no return ran:
\* NULL, the node just placed, or any other node of the heap
Undef(n) == {NULL, n} \cup alloc

InsertBaby(data, undef) ==
  /\ pc = "idle"
  /\ last = NoCall
  /\ LET n == malloc(alloc, data)
         s == insert_baby(Machine, n, data, undef)
     IN /\ undef \in Undef(n)
        /\ nodes' = s.nodes
        /\ t' = s.t
        /\ alloc' = alloc \cup {n}
        /\ fault' = s.fault
        /\ pc' = IF Ok(s) THEN "idle" ELSE "aborted"
        /\ inserted' = IF Ok(s) THEN inserted \cup {data} ELSE inserted
  /\ UNCHANGED <<last, path_max, path_min, vec>>

SearchBaby(elem) ==
  /\ pc = "idle"
  /\ last = NoCall
  /\ last' = [op |-> "search_baby", arg |-> elem, ret |-> search_baby(Machine, elem)]
  /\ UNCHANGED <<nodes, alloc, t, pc, fault, inserted, path_max, path_min, vec>>

\* tp = NULL is is_valid_rb_tree(NULL), tp = 1 is is_valid_rb_tree(t)
IsValidRbTree(tp) ==
  /\ pc = "idle"
  /\ last = NoCall
  /\ LET v == is_valid_rb_tree(Machine, tp, [max |-> path_max, min |-> path_min]) IN
       /\ last' = [op |-> "is_valid_rb_tree", arg |-> tp, ret |-> v.ret]
       /\ path_max' = v.pm.max
       /\ path_min' = v.pm.min
  /\ UNCHANGED <<nodes, alloc, t, pc, fault, inserted, vec>>

\* free_rb(t): the tree cannot be used afterwards
FreeRb ==
  /\ pc = "idle"
  /\ last = NoCall
  /\ LET s == free_rb(Machine) IN
       /\ nodes' = s.nodes
       /\ alloc' = {a \in alloc : s.nodes[a] # FreeCell}
       /\ fault' = s.fault
       /\ pc' = IF Ok(s) THEN "freed" ELSE "aborted"
  /\ last' = [op |-> "free_rb", arg |-> NULL, ret |-> NULL]
  /\ UNCHANGED <<t, inserted, path_max, path_min, vec>>

TakeResult ==
  /\ pc = "idle"
  /\ last # NoCall
  /\ last' = NoCall
  /\ UNCHANGED <<nodes, alloc, t, pc, fault, inserted, path_max, path_min, vec>>

\* a test building a tree by hand: binary_insert_node on a fresh node that
\* holds data (a key not used before), the return value not used
BinaryInsertNode(data) ==
  /\ pc = "idle"
  /\ last = NoCall
  /\ data \notin inserted
  /\ LET n == malloc(alloc, data)
         s0 == [Machine EXCEPT !.nodes[n].data = data]
         s == binary_insert_node(s0, n, NULL)
     IN /\ nodes' = s.nodes
        /\ t' = s.t
        /\ alloc' = alloc \cup {n}
        /\ fault' = s.fault
        /\ pc' = IF Ok(s) THEN "idle" ELSE "aborted"
        /\ inserted' = IF Ok(s) THEN inserted \cup {data} ELSE inserted
  /\ UNCHANGED <<last, path_max, path_min, vec>>

\* a test colouring a node of the tree by hand
SetColor(n, color) ==
  /\ pc = "idle"
  /\ last = NoCall
  /\ n \in alloc
  /\ nodes[n].node_color # color
  /\ nodes' = set_color(Machine, n, color).nodes
  /\ UNCHANGED <<alloc, t, pc, fault, inserted, last, path_max, path_min, vec>>

Next ==
  \/ \E data \in Keys, undef \in Addr \cup {NULL} : InsertBaby(data, undef)
  \/ \E elem \in Keys \cup {MaxKey + 1} : SearchBaby(elem)
  \/ \E tp \in {NULL, 1} : IsValidRbTree(tp)
  \/ FreeRb
  \/ TakeResult

Spec == Init /\ [][Next]_vars

\* hand-built trees: every binary search tree over BuiltKeys in every colouring
NextValid ==
  \/ \E data \in BuiltKeys : BinaryInsertNode(data)
  \/ \E n \in Addr, color \in {RED, BLACK} : SetColor(n, color)
  \/ \E tp \in {NULL, 1} : IsValidRbTree(tp)
  \/ TakeResult

SpecValid == Init /\ [][NextValid]_vars

\* a test calling rrot(n, t) on a node of a tree built by hand
Rrot(n) ==
  /\ pc = "idle"
  /\ last = NoCall
  /\ n \in alloc
  /\ LET s == rrot(Machine, n) IN
       /\ nodes' = s.nodes
       /\ t' = s.t
       /\ fault' = s.fault
       /\ pc' = IF Ok(s) THEN "idle" ELSE "aborted"
       /\ last' = [op |-> "rrot", arg |-> n, ret |-> s.ret]
  /\ UNCHANGED <<alloc, inserted, path_max, path_min, vec>>

Lrot(n) ==
  /\ pc = "idle"
  /\ last = NoCall
  /\ n \in alloc
  /\ LET s == lrot(Machine, n) IN
       /\ nodes' = s.nodes
       /\ t' = s.t
       /\ fault' = s.fault
       /\ pc' = IF Ok(s) THEN "idle" ELSE "aborted"
       /\ last' = [op |-> "lrot", arg |-> n, ret |-> s.ret]
  /\ UNCHANGED <<alloc, inserted, path_max, path_min, vec>>

\* rotations of hand-built trees: every binary search tree over BuiltKeys
NextRot ==
  \/ \E data \in BuiltKeys : BinaryInsertNode(data)
  \/ \E n \in Addr : Rrot(n)
  \/ \E n \in Addr : Lrot(n)
  \/ TakeResult

SpecRot == Init /\ [][NextRot]_vars

RemoveBaby(key) ==
  /\ pc = "idle"
  /\ last = NoCall
  /\ LET s == remove_baby(Machine, key) IN
       /\ nodes' = s.nodes
       /\ t' = s.t
       /\ alloc' = {a \in alloc : s.nodes[a] # FreeCell}
       /\ fault' = s.fault
       /\ pc' = IF Ok(s) THEN "idle" ELSE "aborted"
       /\ last' = [op |-> "remove_baby", arg |-> key, ret |-> s.ret]
  /\ UNCHANGED <<inserted, path_max, path_min, vec>>

\* removal from hand-built trees
NextRemove ==
  \/ \E data \in BuiltKeys : BinaryInsertNode(data)
  \/ \E n \in Addr, color \in {RED, BLACK} : SetColor(n, color)
  \/ \E key \in BuiltKeys : RemoveBaby(key)
  \/ \E elem \in BuiltKeys : SearchBaby(elem)
  \/ TakeResult

SpecRemove == Init /\ [][NextRemove]_vars

\* a test calling replace_with_pred(n) on a node of a tree built by hand
ReplaceWithPred(n) ==
  /\ pc = "idle"
  /\ last = NoCall
  /\ n \in alloc
  /\ LET s == replace_with_pred(Machine, n) IN
       /\ nodes' = s.nodes
       /\ t' = s.t
       /\ fault' = s.fault
       /\ pc' = IF Ok(s) THEN "idle" ELSE "aborted"
       /\ last' = [op |-> "replace_with_pred", arg |-> n, ret |-> s.ret]
  /\ UNCHANGED <<alloc, inserted, path_max, path_min, vec>>

ReplaceWithSucc(n) ==
  /\ pc = "idle"
  /\ last = NoCall
  /\ n \in alloc
  /\ LET s == replace_with_succ(Machine, n) IN
       /\ nodes' = s.nodes
       /\ t' = s.t
       /\ fault' = s.fault
       /\ pc' = IF Ok(s) THEN "idle" ELSE "aborted"
       /\ last' = [op |-> "replace_with_succ", arg |-> n, ret |-> s.ret]
  /\ UNCHANGED <<alloc, inserted, path_max, path_min, vec>>

SimpleReplace(n, sorp) ==
  /\ pc = "idle"
  /\ last = NoCall
  /\ n \in alloc
  /\ LET s == simple_replace(Machine, n, sorp) IN
       /\ nodes' = s.nodes
       /\ t' = s.t
       /\ fault' = s.fault
       /\ pc' = IF Ok(s) THEN "idle" ELSE "aborted"
       /\ last' = [op |-> "simple_replace", arg |-> n, sorp |-> sorp, ret |-> s.ret]
  /\ UNCHANGED <<alloc, inserted, path_max, path_min, vec>>

\* the replace functions on hand-built trees: every binary search tree over
\* BuiltKeys, and what the replace functions make of it
NextReplace ==
  \/ \E data \in BuiltKeys : BinaryInsertNode(data)
  \/ \E n \in Addr : ReplaceWithPred(n)
  \/ \E n \in Addr : ReplaceWithSucc(n)
  \/ \E n \in Addr, sorp \in {SUCC, PRED} : SimpleReplace(n, sorp)
  \/ TakeResult

SpecReplace == Init /\ [][NextReplace]_vars

\* ---- the vectore program ----

VMachine == [v |-> vec, fault |-> "", ret |-> 0, touched |-> {}]

AddToVectore(elem, index, u) ==
  /\ pc = "idle"
  /\ last = NoCall
  /\ LET s == add_to_vectore(VMachine, elem, index, u) IN
       /\ vec' = s.v
       /\ fault' = s.fault
       /\ pc' = IF Ok(s) THEN "idle" ELSE "aborted"
       /\ last' = [op |-> "add_to_vectore", arg |-> index, elem |-> elem, ret |-> s.ret]
  /\ UNCHANGED <<nodes, alloc, t, inserted, path_max, path_min>>

CleanIndex(index, w, undef) ==
  /\ pc = "idle"
  /\ last = NoCall
  /\ LET s == clean_index(VMachine, index, w, undef) IN
       /\ vec' = s.v
       /\ fault' = s.fault
       /\ pc' = IF Ok(s) THEN "idle" ELSE "aborted"
       /\ last' = [op |-> "clean_index", arg |-> index, ret |-> s.ret, touched |-> s.touched]
  /\ UNCHANGED <<nodes, alloc, t, inserted, path_max, path_min>>

GetFromVectore(index) ==
  /\ pc = "idle"
  /\ last = NoCall
  /\ last' = [op |-> "get_from_vectore", arg |-> index, ret |-> get_from_vectore(VMachine, index)]
  /\ UNCHANGED <<nodes, alloc, t, pc, fault, inserted, path_max, path_min, vec>>

NextVec ==
  \/ \E elem \in Elems, index \in Indexes, u \in Realloc : AddToVectore(elem, index, u)
  \/ \E index \in Indexes, w \in {NULL, Wild}, undef \in {0, 1} : CleanIndex(index, w, undef)
  \/ \E index \in Indexes : GetFromVectore(index)
  \/ TakeResult

SpecVec == Init /\ [][NextVec]_vars

\* ---- what the properties speak about ----

RECURSIVE Subtree(_, _)
Subtree(ns, n) ==
  IF n = NULL THEN {} ELSE {n} \cup Subtree(ns, ns[n].left) \cup Subtree(ns, ns[n].right)

RECURSIVE InOrder(_, _)
InOrder(ns, n) ==
  IF n = NULL THEN <<>>
  ELSE InOrder(ns, ns[n].left) \o <<ns[n].data>> \o InOrder(ns, ns[n].right)

\* the numbers of BLACK nodes on the paths from n down to an absent child
RECURSIVE BlackCounts(_, _)
BlackCounts(ns, n) ==
  IF n = NULL THEN {0}
  ELSE LET b == IF ns[n].node_color = BLACK THEN 1 ELSE 0 IN
       {c + b : c \in BlackCounts(ns, ns[n].left) \cup BlackCounts(ns, ns[n].right)}

\* black-height computed bottom-up in one pass: an absent child has height 1,
\* and Mismatch (below every height) is returned where two sides differ
Mismatch == NULL
RECURSIVE BottomUp(_, _)
BottomUp(ns, n) ==
  IF n = NULL THEN 1
  ELSE LET l == BottomUp(ns, ns[n].left)
           r == BottomUp(ns, ns[n].right)
       IN IF l = Mismatch \/ r = Mismatch \/ l # r THEN Mismatch
          ELSE l + (IF ns[n].node_color = BLACK THEN 1 ELSE 0)

RECURSIVE Height(_, _)
Height(ns, n) ==
  IF n = NULL THEN 0
  ELSE LET hl == Height(ns, ns[n].left)
           hr == Height(ns, ns[n].right)
       IN 1 + (IF hl > hr THEN hl ELSE hr)

RECURSIVE Pow2(_)
Pow2(e) == IF e = 0 THEN 1 ELSE 2 * Pow2(e - 1)

Tree == Subtree(nodes, t.root)

TreeKeys == {nodes[a].data : a \in Tree}

Red(ns, n) == n # NULL /\ ns[n].node_color = RED

RedRed(ns, n) == Red(ns, n) /\ (Red(ns, ns[n].left) \/ Red(ns, ns[n].right))

StrictlyIncreasing(s) == \A i \in 1..(Len(s) - 1) : s[i] < s[i + 1]

Range(s) == {s[i] : i \in 1..Len(s)}

\* every insert_baby so far has completed, and there was at least one
AfterInsert == pc = "idle" /\ inserted # {}

\* a step is a call of insert_baby exactly when it takes a node from malloc;
\* Fresh is that node in the step's second state
Fresh == alloc' \ alloc

\* ---- the claims ----

\* C1: after every completed insert_baby of pairwise distinct keys, every path
\* from the root to an absent child passes through the same number of BLACK nodes.
C1_BlackHeight == AfterInsert => Cardinality(BlackCounts(nodes, t.root)) = 1

\* C2: after every completed insert_baby of pairwise distinct keys, no RED node
\* has a RED child.
C2_NoRedRed == AfterInsert => \A n \in Tree : ~RedRed(nodes, n)

\* C3: after every completed insert_baby of pairwise distinct keys, the root is
\* present and BLACK.
C3_RootBlack == AfterInsert => t.root # NULL /\ nodes[t.root].node_color = BLACK

\* a tree as the recolouring of parent and uncle at the root leaves it: both
\* children of the root BLACK over a RED grandchild, the root BLACK again
C3_Witness ==
  /\ AfterInsert
  /\ nodes[t.root].node_color = BLACK
  /\ nodes[t.root].left # NULL /\ nodes[nodes[t.root].left].node_color = BLACK
  /\ nodes[t.root].right # NULL /\ nodes[nodes[t.root].right].node_color = BLACK
  /\ \E n \in Tree : Red(nodes, n) /\ nodes[n].parent \in {nodes[t.root].left, nodes[t.root].right}
  /\ nodes[t.root].data # 1 /\ nodes[t.root].data # MaxKey

\* C4: after every completed insert_baby of pairwise distinct keys, the in-order
\* traversal yields exactly the inserted keys, strictly increasing.
C4_InOrder ==
  AfterInsert => /\ StrictlyIncreasing(InOrder(nodes, t.root))
                 /\ Range(InOrder(nodes, t.root)) = inserted
                 /\ Len(InOrder(nodes, t.root)) = Cardinality(inserted)

C4_Witness ==
  /\ AfterInsert
  /\ Cardinality(inserted) >= 5
  /\ nodes[t.root].left # NULL /\ nodes[t.root].right # NULL
  /\ Height(nodes, t.root) = 3

\* C5: search_baby returns the payload inserted under the key for every key
\* that was inserted, and NULL for every key that was never inserted.
C5_Search ==
  (pc = "idle" /\ last.op = "search_baby") =>
     last.ret = (IF last.arg \in inserted THEN last.arg ELSE NULL)

\* a payload found two links below the root
C5_Witness ==
  /\ last.op = "search_baby"
  /\ last.ret # NULL
  /\ \E n \in Tree : /\ nodes[n].data = last.ret
                     /\ nodes[n].parent # NULL
                     /\ nodes[nodes[n].parent].parent # NULL

\* C6: insert_baby with a key equal to a key stored in the tree stops in the
\* duplicate branch of node_insert_node and leaves every node of the tree and
\* the tree's root, num_nodes and sorp as they were.
C6_DuplicateUnchanged ==
  [][\A n \in Fresh :
       nodes'[n].data \in TreeKeys =>
          /\ pc' = "aborted"
          /\ fault' = "duplicate"
          /\ t' = t
          /\ inserted' = inserted
          /\ \A a \in Tree : nodes'[a] = nodes[a]]_vars

C6_Witness == pc = "aborted" /\ fault = "duplicate" /\ t.num_nodes >= 3

\* C7: num_nodes is 0 for a new tree, grows by exactly one in each insert_baby
\* that completes and changes in no other step, and so equals the number of
\* nodes reachable from the root.
C7_NumNodes ==
  /\ t.num_nodes = 0
  /\ [](pc = "idle" => t.num_nodes = Cardinality(Tree))
  /\ [][t'.num_nodes = t.num_nodes +
          (IF pc' = "idle" /\ Fresh # {} THEN 1 ELSE 0)]_vars

C7_Witness == pc = "idle" /\ t.num_nodes = MaxKey /\ Cardinality(Tree) = MaxKey

\* C8: after n >= 1 inserts of pairwise distinct keys the height h of the tree
\* satisfies 2^h <= (n+1)^2.
C8_HeightBound ==
  AfterInsert => Pow2(Height(nodes, t.root)) <= (t.num_nodes + 1) * (t.num_nodes + 1)

\* C9: is_valid_rb_tree returns 0 for a NULL tree, an empty tree, a RED root and
\* a RED node with a RED child at any depth; an absent child counts as BLACK,
\* so a RED node is not rejected for a child it does not have.
C9_Rejects ==
  (pc = "idle" /\ last.op = "is_valid_rb_tree") =>
     /\ (last.arg = NULL \/ t.root = NULL \/ Red(nodes, t.root)
           \/ \E n \in Tree : RedRed(nodes, n)) => last.ret = 0
     /\ (/\ last.arg # NULL /\ t.root # NULL /\ ~Red(nodes, t.root)
         /\ \A n \in Tree : ~RedRed(nodes, n)
         /\ Cardinality(BlackCounts(nodes, t.root)) = 1) => last.ret = 1

\* rejected for a RED node with a RED child two links below a BLACK root whose
\* children are not both RED
C9_Witness ==
  /\ last.op = "is_valid_rb_tree" /\ last.arg # NULL /\ last.ret = 0
  /\ t.root # NULL /\ ~Red(nodes, t.root)
  /\ ~RedRed(nodes, nodes[t.root].left) /\ ~RedRed(nodes, nodes[t.root].right)
  /\ \E n \in Tree : RedRed(nodes, n) /\ nodes[n].parent # NULL /\ nodes[n].parent # t.root

\* C10: on a tree with a BLACK root and no RED node with a RED child,
\* is_valid_rb_tree returns 1 exactly when the bottom-up black-height
\* computation finds no mismatch at any node.
C10_BottomUp ==
  (/\ pc = "idle" /\ last.op = "is_valid_rb_tree" /\ last.arg # NULL
   /\ t.root # NULL /\ ~Red(nodes, t.root)
   /\ \A n \in Tree : ~RedRed(nodes, n)) =>
     (last.ret = 1 <=> BottomUp(nodes, t.root) # Mismatch)

\* rejected for a mismatch inside the left subtree of the root only: the two
\* sides of some node below the root differ, the right subtree of the root is
\* balanced in itself
C10_Witness ==
  /\ last.op = "is_valid_rb_tree" /\ last.arg # NULL /\ last.ret = 0
  /\ t.root # NULL /\ ~Red(nodes, t.root)
  /\ \A n \in Tree : ~RedRed(nodes, n)
  /\ nodes[t.root].left # NULL /\ nodes[t.root].right # NULL
  /\ BottomUp(nodes, nodes[t.root].right) # Mismatch
  /\ \E n \in Subtree(nodes, nodes[t.root].left) :
        /\ BottomUp(nodes, nodes[n].left) # Mismatch
        /\ BottomUp(nodes, nodes[n].right) # Mismatch
        /\ BottomUp(nodes, nodes[n].left) # BottomUp(nodes, nodes[n].right)

\* C11: three pairwise distinct keys inserted by insert_baby into an empty tree,
\* in any order, leave the median key at the root, the smallest key in its left
\* child, the largest in its right child, the root BLACK and both children RED.
C11_ThreeKeys ==
  (pc = "idle" /\ Cardinality(inserted) = 3) =>
     /\ t.root # NULL
     /\ nodes[t.root].left # NULL /\ nodes[t.root].right # NULL
     /\ nodes[nodes[t.root].left].data < nodes[t.root].data
     /\ nodes[t.root].data < nodes[nodes[t.root].right].data
     /\ inserted = {nodes[nodes[t.root].left].data, nodes[t.root].data, nodes[nodes[t.root].right].data}
     /\ nodes[t.root].node_color = BLACK
     /\ nodes[nodes[t.root].left].node_color = RED
     /\ nodes[nodes[t.root].right].node_color = RED

\* the tree satisfies the red-black invariants: the root is BLACK, no RED node
\* has a RED child, every path to an absent child has the same number of BLACK nodes
ValidTree ==
  /\ t.root # NULL => nodes[t.root].node_color = BLACK
  /\ \A n \in Tree : nodes[n].node_color \in {RED, BLACK} /\ ~RedRed(nodes, n)
  /\ Cardinality(BlackCounts(nodes, t.root)) = 1

Calls(log, ev) == SelectSeq(log, LAMBDA e : e.ev = ev)

\* C13: free_rb(t) on a tree made by create_rb and any number of insert_baby
\* calls, none included, completes without reading through an absent node and
\* frees every node of the tree and every payload exactly once.
C13_FreeRb ==
  [][(last'.op = "free_rb" /\ last.op = "none") =>
        LET s == free_rb(Machine) IN
        /\ pc' = "freed"
        /\ Len(Calls(s.log, "free_node")) = Cardinality(Tree)
        /\ {e.n : e \in Range(Calls(s.log, "free_node"))} = Tree
        /\ Len(Calls(s.log, "free")) = Cardinality(Tree)
        /\ {e.n : e \in Range(Calls(s.log, "free"))} = TreeKeys]_vars

\* C14: insert_baby never changes the payload of a node that is in the tree
\* when it is called, and search_baby changes no payload, link, colour, root,
\* num_nodes or sorp.
C14_Frame ==
  [][/\ Fresh # {} => \A a \in Tree : nodes'[a].data = nodes[a].data
     /\ (last'.op = "search_baby" /\ last.op = "none") => nodes' = nodes /\ t' = t]_vars

\* a search has run on a tree that insert_baby has rotated at the root
C14_Witness ==
  /\ pc = "idle" /\ last.op = "search_baby"
  /\ Cardinality(Tree) >= 3
  /\ nodes[t.root].left # NULL /\ nodes[t.root].right # NULL
  /\ \E a \in Tree : nodes[a].data = last.arg /\ nodes[a].parent # NULL

\* C15: for every binary search tree and every node n with a left child (rrot)
\* or a right child (lrot), the rotation completes and the in-order key sequence
\* of the whole tree is the same after it as before.
C15_RotationInOrder ==
  [][/\ (last'.op = "rrot" /\ last.op = "none" /\ nodes[last'.arg].left # NULL) =>
          pc' = "idle" /\ InOrder(nodes', t'.root) = InOrder(nodes, t.root)
     /\ (last'.op = "lrot" /\ last.op = "none" /\ nodes[last'.arg].right # NULL) =>
          pc' = "idle" /\ InOrder(nodes', t'.root) = InOrder(nodes, t.root)]_vars

\* rrot has run on a node below the root and has moved a subtree from the
\* left child to the node
C15_Witness ==
  /\ pc = "idle" /\ last.op = "rrot"
  /\ nodes[last.arg].left # NULL
  /\ nodes[last.arg].parent # NULL
  /\ nodes[nodes[last.arg].parent].parent # NULL
  /\ Cardinality(Tree) = MaxBuilt

\* the heap after rrot(n), written link by link from the heap ns before it
RrotLinks(ns, ms, rt0, rt1, n) ==
  LET l == ns[n].left
      lr == ns[l].right
      tp == ns[n].parent
  IN /\ rt1 = (IF rt0 = n THEN l ELSE rt0)
     /\ ms[l].parent = tp /\ ms[l].right = n /\ ms[l].left = ns[l].left
     /\ ms[n].parent = l /\ ms[n].left = lr /\ ms[n].right = ns[n].right
     /\ lr # NULL => ms[lr] = [ns[lr] EXCEPT !.parent = n]
     /\ tp # NULL => /\ ms[tp].parent = ns[tp].parent
                     /\ ms[tp].left = (IF ns[tp].left = n THEN l ELSE ns[tp].left)
                     /\ ms[tp].right = (IF ns[tp].left = n THEN ns[tp].right ELSE l)
     /\ \A a \in Addr \ {n, l, lr, tp} : ms[a] = ns[a]
     /\ \A a \in Addr : ms[a].data = ns[a].data /\ ms[a].node_color = ns[a].node_color

LrotLinks(ns, ms, rt0, rt1, n) ==
  LET r == ns[n].right
      rl == ns[r].left
      tp == ns[n].parent
  IN /\ rt1 = (IF rt0 = n THEN r ELSE rt0)
     /\ ms[r].parent = tp /\ ms[r].left = n /\ ms[r].right = ns[r].right
     /\ ms[n].parent = r /\ ms[n].right = rl /\ ms[n].left = ns[n].left
     /\ rl # NULL => ms[rl] = [ns[rl] EXCEPT !.parent = n]
     /\ tp # NULL => /\ ms[tp].parent = ns[tp].parent
                     /\ ms[tp].left = (IF ns[tp].left = n THEN r ELSE ns[tp].left)
                     /\ ms[tp].right = (IF ns[tp].left = n THEN ns[tp].right ELSE r)
     /\ \A a \in Addr \ {n, r, rl, tp} : ms[a] = ns[a]
     /\ \A a \in Addr : ms[a].data = ns[a].data /\ ms[a].node_color = ns[a].node_color

\* C16: after rrot(n, t) with left child l, l is in n's former slot under n's
\* former parent (or is t->root when n was the root, t->root unchanged
\* otherwise), n is l's right child, l's former right subtree is n's left
\* subtree, the parents of l, n and the top of that subtree are updated, and
\* every other link is unchanged; lrot is the mirror image.
C16_RotationLinks ==
  [][/\ (last'.op = "rrot" /\ last.op = "none" /\ nodes[last'.arg].left # NULL) =>
          RrotLinks(nodes, nodes', t.root, t'.root, last'.arg)
     /\ (last'.op = "lrot" /\ last.op = "none" /\ nodes[last'.arg].right # NULL) =>
          LrotLinks(nodes, nodes', t.root, t'.root, last'.arg)]_vars

\* lrot has run on the right child of its parent and has moved a subtree from
\* the right child to the node
C16_Witness ==
  /\ pc = "idle" /\ last.op = "lrot"
  /\ nodes[last.arg].right # NULL
  /\ nodes[last.arg].parent # NULL
  /\ nodes[nodes[last.arg].parent].parent # NULL
  /\ nodes[nodes[nodes[last.arg].parent].parent].right = nodes[last.arg].parent

\* C17: after every completed insert_baby of pairwise distinct keys the root has
\* no parent and every node c that is the left or right child of a node p has
\* p as its parent.
C17_ParentLinks ==
  AfterInsert =>
     /\ t.root # NULL /\ nodes[t.root].parent = NULL
     /\ \A p \in Tree :
          /\ nodes[p].left # NULL => nodes[nodes[p].left].parent = p
          /\ nodes[p].right # NULL => nodes[nodes[p].right].parent = p

\* a tree that rrot and lrot have both rotated at the root, three levels deep
C17_Witness ==
  /\ AfterInsert
  /\ Cardinality(Tree) = MaxKey
  /\ nodes[t.root].data \notin {1, 2, MaxKey - 1, MaxKey}
  /\ \E c \in Tree : nodes[c].parent # NULL
                     /\ nodes[nodes[c].parent].parent # NULL
                     /\ nodes[nodes[nodes[c].parent].parent].parent = NULL

\* C18: in every sequence of insert_baby calls with pairwise distinct keys no
\* assertion of the insert path fails: not the non-NULL parent and grandparent
\* of insert_black_parent, insert_pred_ublack_opp and insert_pred_ublack_same,
\* not the parentless root of insert_base, not the child rrot and lrot rotate
\* up, not the RED-or-BLACK colour is_red reads.
C18_NoAssert == fault # "assert" /\ (fault = "duplicate" => Scratch \in alloc)

\* below the root a BLACK node with two RED children, as insert_pred_ublack_same
\* leaves the former parent after rotating at a grandparent that has a parent
C18_Witness ==
  /\ AfterInsert
  /\ \E n \in Tree : /\ nodes[n].parent # NULL
                     /\ nodes[n].node_color = BLACK
                     /\ Red(nodes, nodes[n].left) /\ Red(nodes, nodes[n].right)
                     /\ nodes[nodes[n].parent].node_color = BLACK

\* the executions of insert_baby that a step of the state machine can be: the
\* step allocates node n, and reading undef from binary_insert_node gives the
\* step's second state
InsertRuns ==
  {s \in UNION {{insert_baby(Machine, n, nodes'[n].data, undef) : undef \in Undef(n)} : n \in Fresh} :
      s.nodes = nodes' /\ s.t = t' /\ s.fault = fault'}

\* n is a child of ns[n].parent on the other side than that parent is of its own parent
Inner(ns, n) ==
  LET p == ns[n].parent
      g == ns[p].parent
  IN (ns[p].right = n /\ ns[g].left = p) \/ (ns[p].left = n /\ ns[g].right = p)

Outer(ns, n) ==
  LET p == ns[n].parent
      g == ns[p].parent
  IN (ns[p].left = n /\ ns[g].left = p) \/ (ns[p].right = n /\ ns[g].right = p)

\* entry i of log is a call of insert_pred_ublack_opp on an inner grandchild
\* whose parent is RED and whose uncle is BLACK or absent
OppInner(log, i) ==
  /\ log[i].ev = "insert_pred_ublack_opp"
  /\ log[i].n # NULL
  /\ LET ns == log[i].nodes
         n == log[i].n
         p == ns[n].parent
     IN /\ p # NULL /\ ns[p].parent # NULL
        /\ Inner(ns, n)
        /\ Red(ns, p)
        /\ LET g == ns[p].parent
               u == IF ns[g].left = p THEN ns[g].right ELSE ns[g].left
           IN ~Red(ns, u)

\* what the claim says of such a call: the next call is the rotation at the
\* parent, and the call after it is insert_pred_ublack_same on the former parent
OppRotates(log, i) ==
  LET ns == log[i].nodes
      n == log[i].n
      p == ns[n].parent
      g == ns[p].parent
  IN /\ Len(log) >= i + 2
     /\ log[i + 1].ev = (IF ns[p].right = n THEN "lrot" ELSE "rrot")
     /\ log[i + 1].n = p
     /\ log[i + 2].ev = "insert_pred_ublack_same"
     /\ log[i + 2].n = p
     /\ LET ms == log[i + 2].nodes IN
          /\ ms[p].parent # NULL
          /\ Red(ms, ms[p].parent)
          /\ ms[ms[p].parent].parent = g
          /\ Outer(ms, p)

\* C19: when the fix-up reaches insert_pred_ublack_opp with n an inner grandchild
\* (parent RED, uncle BLACK or absent), it rotates at the parent, lrot if n is the
\* right child of a left parent and rrot if n is the left child of a right
\* parent, and goes on to insert_pred_ublack_same with the former parent as n,
\* which is then an outer grandchild with a RED parent under the same grandparent.
C19_OppRotates ==
  [][\A s \in InsertRuns : \A i \in 1..Len(s.log) : OppInner(s.log, i) => OppRotates(s.log, i)]_vars

\* the number of parent links from n up to the node without parent
RECURSIVE Depth(_, _)
Depth(ns, n) == IF n = NULL \/ ns[n].parent = NULL THEN 0 ELSE 1 + Depth(ns, ns[n].parent)

\* every call of insert_base after the first is on the grandparent of the node
\* of the call before it, two links closer to the root
ClimbsToRoot(log) ==
  LET b == Calls(log, "insert_base") IN
  /\ Len(b) >= 1
  /\ \A i \in 1..(Len(b) - 1) :
        /\ b[i + 1].n = grand_parent([nodes |-> b[i + 1].nodes], b[i].n)
        /\ Depth(b[i + 1].nodes, b[i + 1].n) + 2 = Depth(b[i].nodes, b[i].n)

\* C20: every insert_baby of a key that is not in a tree satisfying the
\* red-black invariants terminates: the descent ends at an absent child, and
\* the fix-up stops in a terminal case or goes on at the grandparent, strictly
\* closer to the root, until it has reached the root; the call returns.
C20_Terminates ==
  [][\A n \in Fresh :
        (ValidTree /\ nodes'[n].data \notin TreeKeys) =>
           /\ pc' = "idle"
           /\ n \in Subtree(nodes', t'.root)
           /\ InsertRuns # {}
           /\ \A s \in InsertRuns : ClimbsToRoot(s.log)]_vars

\* C21: rrot(n, t) on a node n without a left child, and lrot(n, t) on a node n
\* without a right child, stop at the assertion on the missing child, and no
\* link, no parent back-reference and not the root reference of the tree has
\* been modified by then.
C21_RotationAsserts ==
  [][/\ (last'.op = "rrot" /\ last.op = "none" /\ nodes[last'.arg].left = NULL) =>
          pc' = "aborted" /\ fault' = "assert" /\ nodes' = nodes /\ t' = t
     /\ (last'.op = "lrot" /\ last.op = "none" /\ nodes[last'.arg].right = NULL) =>
          pc' = "aborted" /\ fault' = "assert" /\ nodes' = nodes /\ t' = t]_vars

\* rrot has stopped on the root of a tree of several nodes, a node that has a
\* right child and no left child
C21_Witness ==
  /\ pc = "aborted" /\ fault = "assert" /\ last.op = "rrot"
  /\ last.arg = t.root
  /\ nodes[last.arg].left = NULL /\ nodes[last.arg].right # NULL
  /\ Cardinality(Tree) >= 3

\* the machine state a call made right after the step starts from
MachineAfter == [nodes |-> nodes', t |-> t', fault |-> "", ret |-> 0, log |-> <<>>]

\* C22: lrot is the reverse of rrot: for every binary search tree and every node
\* n with a left child l, rrot(n, t) followed by lrot(l, t) gives every left,
\* right and parent link and the root reference of the tree the value it had
\* before the two rotations; likewise lrot(n, t) followed by rrot on the right
\* child that has become the top node.
C22_RotationsInverse ==
  [][/\ (last'.op = "rrot" /\ last.op = "none" /\ nodes[last'.arg].left # NULL) =>
          LET s == lrot(MachineAfter, nodes[last'.arg].left) IN
          pc' = "idle" /\ Ok(s) /\ s.nodes = nodes /\ s.t = t
     /\ (last'.op = "lrot" /\ last.op = "none" /\ nodes[last'.arg].right # NULL) =>
          LET s == rrot(MachineAfter, nodes[last'.arg].right) IN
          pc' = "idle" /\ Ok(s) /\ s.nodes = nodes /\ s.t = t]_vars

\* rrot has run on the root, whose left child had a right subtree, so that the
\* lrot undoing it has a subtree to hand back and the root reference to restore
C22_Witness ==
  /\ pc = "idle" /\ last.op = "rrot"
  /\ nodes[last.arg].parent = t.root
  /\ nodes[t.root].right = last.arg
  /\ nodes[last.arg].left # NULL /\ nodes[last.arg].right # NULL
  /\ nodes[t.root].left # NULL

\* the node under which the comparator descent from cur places the key d
RECURSIVE AttachPoint(_, _, _)
AttachPoint(ns, cur, d) ==
  LET next == IF d < ns[cur].data THEN ns[cur].left ELSE ns[cur].right IN
  IF next = NULL THEN cur ELSE AttachPoint(ns, next, d)

\* C23: binary_insert_node places the node by plain binary search and does not
\* rebalance: in an empty tree the node becomes the BLACK root; otherwise it is
\* coloured RED and hung in the one absent child position the comparator
\* descent reaches, its parent is the node it hangs under, its children are
\* absent, and no other link, no other colour and not the root reference
\* changes.
C23_PlainPlacement ==
  [][\A n \in Fresh :
        LET d == nodes'[n].data IN
        /\ pc' = "idle"
        /\ IF t.root = NULL
           THEN /\ nodes'[n] = [data |-> d, node_color |-> BLACK,
                                parent |-> NULL, left |-> NULL, right |-> NULL]
                /\ t' = [t EXCEPT !.root = n]
                /\ \A b \in Addr \ {n} : nodes'[b] = nodes[b]
           ELSE LET a == AttachPoint(nodes, t.root, d) IN
                /\ nodes'[n] = [data |-> d, node_color |-> RED,
                                parent |-> a, left |-> NULL, right |-> NULL]
                /\ nodes'[a] = IF d < nodes[a].data
                               THEN [nodes[a] EXCEPT !.left = n]
                               ELSE [nodes[a] EXCEPT !.right = n]
                /\ nodes'[a] # nodes[a]
                /\ t' = t
                /\ \A b \in Addr \ {n, a} : nodes'[b] = nodes[b]]_vars

\* 1, 2 and 3 placed in this order: the chain root 1, right 2, right-right 3
C23_Witness ==
  /\ pc = "idle" /\ t.root # NULL
  /\ Cardinality(Tree) = 3
  /\ LET a == t.root
         b == nodes[a].right
     IN /\ nodes[a].data = 1 /\ nodes[a].left = NULL /\ nodes[a].node_color = BLACK
        /\ b # NULL /\ nodes[b].data = 2 /\ nodes[b].left = NULL /\ nodes[b].node_color = RED
        /\ nodes[b].right # NULL /\ nodes[nodes[b].right].data = 3
        /\ nodes[nodes[b].right].node_color = RED
        /\ nodes[nodes[b].right].parent = b

\* C24: on every insertion that succeeds, into an empty tree as well as below
\* a root, binary_insert_node returns the node it has inserted, never NULL, and
\* the fix-up insert_rb_node starts, its first insert_base, is on that node.
C24_ReturnsInserted ==
  [][\A n \in Fresh : \A s \in InsertRuns :
        s.fault # "duplicate" =>
           LET b == Calls(s.log, "insert_base") IN
           Len(b) >= 1 /\ b[1].n = n]_vars

\* the nodes of the subtree of n in in-order
RECURSIVE InOrderNodes(_, _)
InOrderNodes(ns, n) ==
  IF n = NULL THEN <<>>
  ELSE InOrderNodes(ns, ns[n].left) \o <<n>> \o InOrderNodes(ns, ns[n].right)

\* the last node of the left subtree of n and the first node of its right
\* subtree, NULL when n has no such subtree
PredNode(ns, n) ==
  LET s == InOrderNodes(ns, ns[n].left) IN IF s = <<>> THEN NULL ELSE s[Len(s)]

SuccNode(ns, n) ==
  LET s == InOrderNodes(ns, ns[n].right) IN IF s = <<>> THEN NULL ELSE s[1]

\* C25: replace_with_pred(n) returns NULL and leaves the payload of n as it is
\* when n has no left child; otherwise it sets the payload of n to the payload
\* of the rightmost node of the left subtree of n and returns that node, and
\* changes no link and no colour.  replace_with_succ is the mirror image, with
\* the leftmost node of the right subtree.
C25_Replace ==
  [][/\ (last'.op = "replace_with_pred" /\ last.op = "none") =>
          LET n == last'.arg
              m == PredNode(nodes, n)
          IN /\ pc' = "idle" /\ t' = t
             /\ last'.ret = m
             /\ nodes' = IF m = NULL THEN nodes ELSE [nodes EXCEPT ![n].data = nodes[m].data]
     /\ (last'.op = "replace_with_succ" /\ last.op = "none") =>
          LET n == last'.arg
              m == SuccNode(nodes, n)
          IN /\ pc' = "idle" /\ t' = t
             /\ last'.ret = m
             /\ nodes' = IF m = NULL THEN nodes ELSE [nodes EXCEPT ![n].data = nodes[m].data]]_vars

\* replace_with_pred has returned a node two links below the left child of n
\* and has given n its payload
C25_Witness ==
  /\ pc = "idle" /\ last.op = "replace_with_pred" /\ last.ret # NULL
  /\ nodes[last.arg].data = nodes[last.ret].data
  /\ nodes[last.arg].data # last.arg
  /\ nodes[last.ret].parent # NULL
  /\ nodes[nodes[last.ret].parent].parent # NULL
  /\ nodes[nodes[nodes[last.ret].parent].parent].parent = last.arg

\* C26: simple_replace(n, sorp) uses the neighbour on the side sorp names (SUCC
\* the successor, PRED the predecessor) whenever n has a subtree on that side,
\* uses the other side only when that subtree is absent, and returns NULL, with
\* the payload of n unchanged, exactly when n has no left and no right child.
C26_SimpleReplace ==
  [][(last'.op = "simple_replace" /\ last.op = "none") =>
        LET n == last'.arg
            preferred == IF last'.sorp = SUCC THEN SuccNode(nodes, n) ELSE PredNode(nodes, n)
            other == IF last'.sorp = SUCC THEN PredNode(nodes, n) ELSE SuccNode(nodes, n)
            used == IF preferred # NULL THEN preferred ELSE other
        IN /\ pc' = "idle" /\ t' = t
           /\ last'.ret = used
           /\ (last'.ret = NULL) <=> (nodes[n].left = NULL /\ nodes[n].right = NULL)
           /\ nodes' = IF used = NULL THEN nodes ELSE [nodes EXCEPT ![n].data = nodes[used].data]]_vars

\* simple_replace with PRED on a node that has no left child has fallen back
\* to the successor, a node below the right child
C26_Witness ==
  /\ pc = "idle" /\ last.op = "simple_replace" /\ last.sorp = PRED
  /\ nodes[last.arg].left = NULL
  /\ last.ret # NULL /\ last.ret # nodes[last.arg].right
  /\ nodes[last.arg].data = nodes[last.ret].data

\* C27: every node that replace_with_pred, replace_with_succ or simple_replace
\* returns has at most one child: a predecessor (a node of the left subtree of
\* n) has no right child, a successor (a node of the right subtree of n) has
\* no left child.
C27_NeighbourOneChild ==
  (pc = "idle" /\ last.op \in {"replace_with_pred", "replace_with_succ", "simple_replace"}
      /\ last.ret # NULL) =>
     LET n == last.arg
         m == last.ret
     IN /\ nodes[m].left = NULL \/ nodes[m].right = NULL
        /\ last.op = "replace_with_pred" => m \in Subtree(nodes, nodes[n].left)
        /\ last.op = "replace_with_succ" => m \in Subtree(nodes, nodes[n].right)
        /\ m \in Subtree(nodes, nodes[n].left) => nodes[m].right = NULL
        /\ m \in Subtree(nodes, nodes[n].right) => nodes[m].left = NULL
        /\ m \in Subtree(nodes, nodes[n].left) \cup Subtree(nodes, nodes[n].right)

\* simple_replace has returned a successor that has a right child, below a
\* right child of n that has two children
C27_Witness ==
  /\ pc = "idle" /\ last.op = "simple_replace" /\ last.ret # NULL
  /\ last.ret \in Subtree(nodes, nodes[last.arg].right)
  /\ nodes[last.ret].right # NULL
  /\ nodes[last.ret].parent # last.arg
  /\ nodes[nodes[last.ret].parent].right # NULL

\* the calls of rrot and lrot in the log of an execution
Rotations(log) == SelectSeq(log, LAMBDA e : e.ev \in {"rrot", "lrot"})

\* entry i of log is where the fix-up reaches the uncle-BLACK cases: what
\* follows is at most one rotation at the parent of the node, then
\* insert_pred_ublack_same with its one rotation at the grandparent of the
\* node, and nothing after it; nothing has been rotated before
UncleBlackRotations(log, i) ==
  LET ns == log[i].nodes
      n == log[i].n
      p == ns[n].parent
      g == ns[p].parent
      rest == SubSeq(log, i + 1, Len(log))
  IN /\ n # NULL /\ p # NULL /\ g # NULL
     /\ Rotations(SubSeq(log, 1, i)) = <<>>
     /\ Len(rest) \in {2, 3}
     /\ Len(rest) = 3 => rest[1].ev \in {"rrot", "lrot"} /\ rest[1].n = p
     /\ rest[Len(rest) - 1].ev = "insert_pred_ublack_same"
     /\ rest[Len(rest)].ev \in {"rrot", "lrot"} /\ rest[Len(rest)].n = g

\* C28: one insert_baby rotates at most twice: the recolouring steps (parent
\* and uncle both RED) do not rotate, and the first time the fix-up reaches the
\* uncle-BLACK cases it rotates at most once at the parent, then exactly once
\* at the grandparent, and stops.
C28_TwoRotations ==
  [][\A s \in InsertRuns :
        /\ Len(Rotations(s.log)) <= 2
        /\ Calls(s.log, "insert_pred_ublack_opp") = <<>> => Rotations(s.log) = <<>>
        /\ \A i \in 1..Len(s.log) :
              s.log[i].ev = "insert_pred_ublack_opp" => Ok(s) /\ UncleBlackRotations(s.log, i)]_vars

\* the tree insert_baby of 2 leaves after 1 and 3: lrot at 1, then rrot at 3
C28_Witness ==
  /\ AfterInsert /\ inserted = {1, 2, 3} /\ alloc = {1, 2, 3}
  /\ t.root = 2 /\ t.num_nodes = 3
  /\ nodes[2] = [data |-> 2, node_color |-> BLACK, parent |-> NULL, left |-> 1, right |-> 3]
  /\ nodes[1] = [data |-> 1, node_color |-> RED, parent |-> 2, left |-> NULL, right |-> NULL]
  /\ nodes[3] = [data |-> 3, node_color |-> RED, parent |-> 2, left |-> NULL, right |-> NULL]

\* the capacity doubled from c until it exceeds the index i
RECURSIVE GrownCapacity(_, _)
GrownCapacity(c, i) == IF c > i \/ c = 0 THEN c ELSE GrownCapacity(2 * c, i)

\* c is CAP_INIT times a power of two
RECURSIVE CapInitTimesPow2(_)
CapInitTimesPow2(c) ==
  c = CAP_INIT \/ (c > CAP_INIT /\ c % 2 = 0 /\ CapInitTimesPow2(c \div 2))

\* C29: add_to_vectore(elem, v, i) with i >= 0 succeeds: it doubles the capacity,
\* starting from the current one, until the capacity exceeds i (no change when
\* i is below it already), stores elem at index i and sets last_used_index to
\* the larger of its old value and i; the capacity is always CAP_INIT times a
\* power of two and never decreases.
C29_AddDoubles ==
  [][(last'.op = "add_to_vectore" /\ last.op = "none" /\ last'.arg >= 0) =>
        LET i == last'.arg IN
        /\ pc' = "idle"
        /\ last'.ret # NULL
        /\ vec'.capacity = GrownCapacity(vec.capacity, i)
        /\ CapInitTimesPow2(vec'.capacity)
        /\ vec'.capacity >= vec.capacity
        /\ i \in DOMAIN vec'.storage /\ vec'.storage[i] = last'.elem
        /\ vec'.last_used_index =
              (IF i > vec.last_used_index THEN i ELSE vec.last_used_index)]_vars

\* the highest index up to k at which st holds a non-NULL element, NO_INDEX_USED
\* when there is none
RECURSIVE HighestUsed(_, _)
HighestUsed(st, k) ==
  IF k < 0 THEN NO_INDEX_USED ELSE IF st[k] # NULL THEN k ELSE HighestUsed(st, k - 1)

\* C30: clean_index(v, i) never reads or writes storage outside the indices
\* 0 .. capacity-1: for i out of range it returns 0 and leaves the vectore as it
\* is, and for i equal to last_used_index it lowers last_used_index to the
\* highest index that still holds a non-NULL element, or to NO_INDEX_USED when
\* none is left, and does not access storage at index -1.
C30_CleanInBounds ==
  [][(last'.op = "clean_index" /\ last.op = "none") =>
        LET i == last'.arg IN
        /\ pc' = "idle"
        /\ \A k \in last'.touched : 0 <= k /\ k < vec.capacity
        /\ (i < 0 \/ i >= vec.capacity) => last'.ret = 0 /\ vec' = vec /\ last'.touched = {}
        /\ (0 <= i /\ i < vec.capacity /\ i = vec.last_used_index) =>
              vec'.last_used_index =
                 HighestUsed([vec.storage EXCEPT ![i] = NULL], vec.last_used_index)]_vars

====
